---------------------------- MODULE Spec2Model ----------------------------
(***************************************************************************)
(* AsyncTransport of agentguard/transport.py: a buffer of events guarded   *)
(* by a threading.Lock, enqueue() callable from the event-loop thread and  *)
(* from a thread without a running loop, and the coroutines flush() and    *)
(* close() running as tasks of one asyncio event loop.                     *)
(*                                                                         *)
(* One event loop thread runs at most one task at a time (cur); a task     *)
(* gives the thread up only at an await (the POST, aclose) or when it      *)
(* ends.  The other thread interleaves freely and meets the loop thread    *)
(* only at the lock.  Every "with self._lock" block is two steps: the      *)
(* acquisition and the body with the release; what the invocation does     *)
(* after the release, up to its next await or its end, is a further step.  *)
(*                                                                         *)
(* SyncTransport of the same file is the record sync: a client made by     *)
(* __init__, the blocking verify() and close().  The two transports share  *)
(* no state.                                                               *)
(***************************************************************************)
EXTENDS Integers, Sequences, FiniteSets, TLC

\* ------------------------------------------------------------- bounds
\* flush() and close() invocations in progress at once, auto-flush tasks
\* included
MaxFlush == 2
\* enqueue() calls
MaxEvents == 3

\* enqueue() calls where flush() and close() are never called
MaxAutoEvents == 6

\* calls of verify() and close() on a SyncTransport
MaxSyncCalls == 6

\* flush_batch_size given to the constructor
FlushBatchSize == 2

Slots == 1..MaxFlush
\* enqueue() called from a coroutine of the running event loop
LoopCaller == MaxFlush + 1
\* enqueue() called from a thread that runs no event loop
ThreadCaller == MaxFlush + 2
Callers == {LoopCaller, ThreadCaller}
\* nobody holds the lock / the loop thread is at its scheduler
Free == 0

\* response statuses the ingestion endpoint answers with
Statuses == {202, 500}

VARIABLES
    buffer,      \* self._buffer: the events awaiting a flush, as event ids
    lock,        \* self._lock: Free or the holder
    client,      \* self._client: "none" (None), "open" or "closed"
    cur,         \* what the event loop thread is running: Free or a task
    slots,       \* the flush()/close() invocations in progress
    callers,     \* the enqueue() call of each caller
    nextId,      \* the id of the next event enqueued (ids count enqueues)
    acked,       \* history: the events the endpoint acknowledged with a 2xx
    requeued,    \* history: the events a failed flush put back
    explicit,    \* history: flush() or close() was called by the user
    overlapped,  \* history: two invocations of flush()/close() overlapped
    closedOk,    \* history: the last operation was a close() that returned
                 \* after a final flush that sent everything or had nothing
    outcome,     \* history: how the last invocation that ended did so:
                 \* "returned", or "raised" into its caller
    headers,     \* the default headers of self._client, sent with each of
                 \* its requests
    sync         \* the SyncTransport and its verify()/close() call

vars == <<buffer, lock, client, cur, slots, callers, nextId, acked,
          requeued, explicit, overlapped, closedOk, outcome, headers, sync>>

\* ------------------------------------------------------ pure helpers

\* mutant: no thread is taken to run the event loop
HasRunningLoopNever(c) == FALSE

\* asyncio.get_running_loop() succeeds only in the event loop's thread
HasRunningLoop(c) == c = LoopCaller

\* mutant: the threshold taken one too low
ShouldFlushOffByOne(buf) == Len(buf) >= FlushBatchSize - 1

\* mutant: the threshold itself does not trigger
ShouldFlushAbove(buf) == Len(buf) > FlushBatchSize

\* should_flush of enqueue(), on the buffer after the append
ShouldFlush(buf) == Len(buf) >= FlushBatchSize

\* event.model_dump(mode="json"): the JSON form of one event
ModelDump(e) == [event_json |-> e]

\* the payload list and the wrapping {"events": payload}
Body(batch) == [events |-> [i \in 1..Len(batch) |-> ModelDump(batch[i])]]

\* response.raise_for_status(): raises unless the status is a 2xx
RaisesForStatus(status) == ~(status \div 100 = 2)

\* mutant: the buffer is capped at flush_batch_size events
PutBackBufferCapped(batch, buf) ==
    SubSeq(batch \o buf, 1,
           IF Len(batch \o buf) < FlushBatchSize THEN Len(batch \o buf)
                                                 ELSE FlushBatchSize)

\* mutant: the failed batch is dropped instead of put back
PutBackBufferDropped(batch, buf) == buf

\* mutant: the failed batch is put back behind the newer events
PutBackBufferAppended(batch, buf) == buf \o batch

\* batch + self._buffer
PutBackBuffer(batch, buf) == batch \o buf

\* api_key given to the constructors, as in the tests
ApiKey == "ag_test_key"

\* a request or a client without headers
NoHeaders == <<>>

\* headers={"X-AgentGuard-Key": self.api_key} of a new client
NewHeaders == [h \in {"X-AgentGuard-Key"} |-> ApiKey]

\* mutant: only the first client is given the key
GetClientHeadersFirstOnly(cl, hd) ==
    IF cl = "open" THEN hd ELSE IF cl = "none" THEN NewHeaders ELSE NoHeaders

\* _get_client(): the headers of the client it returns, a new client when
\* there is none or it is closed
GetClientHeaders(cl, hd) == IF cl = "open" THEN hd ELSE NewHeaders

\* response statuses the verification endpoint answers with
SyncStatuses == {200, 404, 500}

\* response bodies of the verification endpoint: the members of a JSON
\* object in the order of the text, or text that is not JSON
Bodies ==
    { [valid |-> TRUE, members |-> << <<"confidence", "0.92">>,
                                      <<"action", "pass">>,
                                      <<"output", "verified">> >>],
      [valid |-> TRUE, members |-> << <<"action", "block">>,
                                      <<"confidence", "0.10">> >>],
      [valid |-> TRUE, members |-> << >>],
      [valid |-> FALSE, members |-> << >>] }

NoBody == [valid |-> FALSE, members |-> << >>]

\* the names of the members of a JSON object
Keys(members) == {members[i][1] : i \in 1..Len(members)}

\* mutant: a verdict without an action is given the action "pass"
JsonDefaulting(members) ==
    [k \in Keys(members) \cup {"action"} |->
        IF k \in Keys(members)
        THEN members[CHOOSE i \in 1..Len(members) :
                        /\ members[i][1] = k
                        /\ \A j \in (i + 1)..Len(members) : members[j][1] # k][2]
        ELSE "pass"]

\* response.json() of a JSON object: the mapping of each name to the value
\* of its last member
Json(members) ==
    [k \in Keys(members) |->
        members[CHOOSE i \in 1..Len(members) :
                   /\ members[i][1] = k
                   /\ \A j \in (i + 1)..Len(members) : members[j][1] # k][2]]

\* the SyncTransport after __init__, no call made: its client, the client's
\* headers, the place of the call in progress, the number of calls made,
\* the last method called, and of the last verify() whether its payload
\* was built, the POSTs made, the headers sent, the response, how it ended
\* and what it returned
SyncInit ==
    [client |-> "open", headers |-> NewHeaders, pc |-> "idle", calls |-> 0,
     closes |-> 0, op |-> "none", built |-> FALSE, posts |-> 0,
     sent |-> NoHeaders, status |-> 0, body |-> NoBody, outcome |-> "none",
     result |-> <<>>]

\* the set of the events of a sequence
Range(s) == {s[i] : i \in 1..Len(s)}

\* a place for an invocation, not in use.  The invocations in progress are
\* kept in the order they started in.  held, enqAtCall, enqAtSwap, alone and
\* second are history: the buffer as the invocation found it, the number
\* of events enqueued when it was called and when it swapped, whether no
\* other invocation overlapped it, and whether it is a close() that
\* directly follows a close() that left nothing to send.
IdleSlot ==
    [kind |-> "none", pc |-> "idle", batch |-> <<>>, body |-> [events |-> <<>>],
     posts |-> 0, sent |-> NoHeaders, result |-> "none", held |-> <<>>,
     enqAtCall |-> 0, enqAtSwap |-> 0, alone |-> TRUE, second |-> FALSE]

IdleCaller == [pc |-> "idle"]

\* an invocation that is scheduled or running
Active(s) == slots[s].pc # "idle"

NoneActive == \A s \in Slots : ~Active(s)

SlotFree == \E s \in Slots : ~Active(s)

\* the place a new invocation takes: the first one not in use
NewSlot == CHOOSE s \in Slots : ~Active(s) /\ \A t \in 1..(s - 1) : Active(t)

\* the invocations without invocation s, which ended
Without(s) == [t \in Slots |-> IF t < s THEN slots[t]
                               ELSE IF t < MaxFlush THEN slots[t + 1]
                               ELSE IdleSlot]

\* number of events enqueued so far
Enqueued == nextId - 1

\* __init__
Init ==
    /\ buffer = <<>>
    /\ lock = Free
    /\ client = "none"
    /\ cur = Free
    /\ slots = [s \in Slots |-> IdleSlot]
    /\ callers = [c \in Callers |-> IdleCaller]
    /\ nextId = 1
    /\ acked = {}
    /\ requeued = {}
    /\ explicit = FALSE
    /\ overlapped = FALSE
    /\ closedOk = FALSE
    /\ outcome = "none"
    /\ headers = NoHeaders
    /\ sync = SyncInit

\* a new invocation overlaps every invocation in progress
Overlap(sl) == [s \in Slots |-> IF sl[s].pc # "idle"
                                THEN [sl[s] EXCEPT !.alone = FALSE] ELSE sl[s]]

\* a new invocation of the given kind, at the given place
Started(kind, pc) ==
    [IdleSlot EXCEPT !.kind = kind, !.pc = pc, !.alone = NoneActive,
                     !.enqAtCall = Enqueued,
                     !.second = (kind = "close" /\ closedOk)]

\* the loop thread after an enqueue() call returned
LoopAfter(c) == IF c = LoopCaller THEN Free ELSE cur

\* ------------------------------------------------------------ enqueue

\* enqueue(), "with self._lock:" entered.  A call from the event loop's
\* thread occupies that thread until it returns.
EnqueueLockUpTo(c, calls) ==
    /\ callers[c].pc = "idle"
    /\ lock = Free
    /\ nextId <= calls
    /\ c = LoopCaller => /\ cur = Free
                         /\ ShouldFlush(Append(buffer, nextId)) => SlotFree
    /\ lock' = c
    /\ cur' = IF c = LoopCaller THEN c ELSE cur
    /\ callers' = [callers EXCEPT ![c].pc = "locked"]
    /\ UNCHANGED <<sync, headers, buffer, client, slots, nextId, acked, requeued, explicit,
                   overlapped, closedOk, outcome>>

EnqueueLock(c) == EnqueueLockUpTo(c, MaxEvents)

\* the body of the with block: append, should_flush, release
EnqueueAppend(c) ==
    /\ callers[c].pc = "locked"
    /\ lock = c
    /\ buffer' = Append(buffer, nextId)
    /\ nextId' = nextId + 1
    /\ lock' = Free
    /\ IF ShouldFlush(buffer')
       THEN /\ callers' = [callers EXCEPT ![c].pc = "sched"]
            /\ cur' = cur
       ELSE /\ callers' = [callers EXCEPT ![c].pc = "idle"]
            /\ cur' = LoopAfter(c)
    /\ closedOk' = FALSE
    /\ UNCHANGED <<sync, headers, client, slots, acked, requeued, explicit, overlapped, outcome>>

\* "if should_flush:" with a running loop: loop.create_task(self.flush())
EnqueueSchedule(c) ==
    /\ callers[c].pc = "sched"
    /\ HasRunningLoop(c)
    /\ SlotFree
    /\ slots' = [Overlap(slots) EXCEPT ![NewSlot] = Started("auto", "scheduled")]
    /\ overlapped' = (overlapped \/ ~NoneActive)
    /\ callers' = [callers EXCEPT ![c].pc = "idle"]
    /\ cur' = LoopAfter(c)
    /\ UNCHANGED <<sync, headers, buffer, lock, client, nextId, acked, requeued, explicit,
                   closedOk, outcome>>

\* mutant: the RuntimeError of get_running_loop() is not caught
EnqueueSkipRaises(c) ==
    /\ callers[c].pc = "sched"
    /\ ~HasRunningLoop(c)
    /\ callers' = [callers EXCEPT ![c].pc = "raised"]
    /\ cur' = LoopAfter(c)
    /\ UNCHANGED <<sync, headers, buffer, lock, client, slots, nextId, acked, requeued,
                   explicit, overlapped, closedOk, outcome>>

\* "if should_flush:" without a running loop: get_running_loop() raises
\* RuntimeError, which is caught; the debug log reads len(self._buffer)
EnqueueSkip(c) ==
    /\ callers[c].pc = "sched"
    /\ ~HasRunningLoop(c)
    /\ Len(buffer) \in Nat        \* len(self._buffer), read for the debug message
    /\ callers' = [callers EXCEPT ![c].pc = "idle"]
    /\ cur' = LoopAfter(c)
    /\ UNCHANGED <<sync, headers, buffer, lock, client, slots, nextId, acked, requeued,
                   explicit, overlapped, closedOk, outcome>>

\* -------------------------------------------------------------- flush

\* "await self.flush()" or "await self.close()" by a coroutine of the loop:
\* the call runs to "with self._lock:" of flush()
FlushCall(kind) ==
    /\ cur = Free
    /\ lock = Free
    /\ SlotFree
    /\ slots' = [Overlap(slots) EXCEPT ![NewSlot] = Started(kind, "locked")]
    /\ overlapped' = (overlapped \/ ~NoneActive)
    /\ lock' = NewSlot
    /\ cur' = NewSlot
    /\ explicit' = TRUE
    /\ closedOk' = FALSE
    /\ UNCHANGED <<sync, headers, buffer, client, callers, nextId, acked, requeued, outcome>>

\* the event loop starts a task made by create_task(self.flush())
FlushRun(s) ==
    /\ slots[s].pc = "scheduled"
    /\ cur = Free
    /\ lock = Free
    /\ slots' = [slots EXCEPT ![s].pc = "locked", ![s].kind = "flush"]
    /\ lock' = s
    /\ cur' = s
    /\ UNCHANGED <<sync, headers, buffer, client, callers, nextId, acked, requeued, explicit,
                   overlapped, closedOk, outcome>>

\* a close() that returns leaves nothing to send when its flush sent all
\* or found nothing, nothing was enqueued since it was called and no other
\* invocation was in progress during it
LeavesNothing(s, result) ==
    /\ slots[s].kind = "close"
    /\ result \in {"empty", "ok"}
    /\ slots[s].enqAtCall = Enqueued
    /\ slots[s].alone

\* mutant: close() calls aclose() without its "is not None" test, which
\* raises AttributeError on a transport that never made a client
ReturnedUnguarded(s, cl, result) ==
    IF slots[s].kind = "close" /\ cl # "none"
    THEN /\ slots' = [slots EXCEPT ![s].pc = "closing", ![s].result = result]
         /\ client' = "closed"
         /\ UNCHANGED <<closedOk, outcome>>
    ELSE /\ slots' = Without(s)
         /\ outcome' = IF slots[s].kind = "close" THEN "raised" ELSE "returned"
         /\ client' = cl
         /\ closedOk' = LeavesNothing(s, result)

\* flush() has returned to its caller and the caller goes on: a task or a
\* bare flush() ends; close() goes on to
\* "if self._client is not None and not self._client.is_closed:
\*      await self._client.aclose()"
\* where aclose() marks the client closed before it first suspends.
\* cl is the client as flush() left it; result tells how flush() went:
\* "empty" (nothing to send), "ok" (a 2xx) or "failed" (batch put back).
Returned(s, cl, result) ==
    IF slots[s].kind = "close" /\ cl = "open"
    THEN /\ slots' = [slots EXCEPT ![s].pc = "closing", ![s].result = result]
         /\ client' = "closed"
         /\ UNCHANGED <<closedOk, outcome>>
    ELSE /\ slots' = Without(s)
         /\ outcome' = "returned"
         /\ client' = cl
         /\ closedOk' = LeavesNothing(s, result)

\* flush() returns out of a with block, which released the lock: a task or
\* a bare flush() ends there; close() is at its line after "await
\* self.flush()", the loop thread still running it
FlushReturns(s, result) ==
    IF slots[s].kind = "close"
    THEN /\ slots' = [slots EXCEPT ![s].pc = "flushed", ![s].result = result]
         /\ UNCHANGED <<cur, closedOk, outcome>>
    ELSE /\ slots' = Without(s)
         /\ cur' = Free
         /\ outcome' = "returned"
         /\ closedOk' = LeavesNothing(s, result)

\* mutant: no early return, the empty batch is posted
FlushEmptyPosts(s) ==
    /\ slots[s].pc = "locked"
    /\ lock = s
    /\ buffer = <<>>
    /\ lock' = Free
    /\ cur' = Free
    /\ client' = "open"
    /\ slots' = [slots EXCEPT ![s].pc = "awaiting", ![s].posts = @ + 1,
                              ![s].enqAtSwap = Enqueued]
    /\ headers' = GetClientHeaders(client, headers)
    /\ UNCHANGED <<sync, buffer, callers, nextId, acked, requeued, explicit,
                   overlapped, closedOk, outcome>>

\* the first with block of flush() on an empty buffer: return
FlushEmpty(s) ==
    /\ slots[s].pc = "locked"
    /\ lock = s
    /\ buffer = <<>>
    /\ lock' = Free
    /\ FlushReturns(s, "empty")
    /\ UNCHANGED <<sync, headers, buffer, client, callers, nextId, acked,
                   requeued, explicit, overlapped>>

\* mutant: the buffer is copied and not cleared
FlushSwapNoClear(s) ==
    /\ slots[s].pc = "locked"
    /\ lock = s
    /\ buffer # <<>>
    /\ buffer' = buffer
    /\ lock' = Free
    /\ slots' = [slots EXCEPT ![s].pc = "swapped", ![s].batch = buffer,
                              ![s].held = buffer, ![s].enqAtSwap = Enqueued]
    /\ UNCHANGED <<sync, headers, client, cur, callers, nextId, acked,
                   requeued, explicit, overlapped, closedOk, outcome>>

\* n, or the length of the sequence when it is shorter
AtMost(n, seq) == IF Len(seq) < n THEN Len(seq) ELSE n

\* mutant: the batch is cut to flush_batch_size events, the rest stays
FlushSwapBatchSized(s) ==
    /\ slots[s].pc = "locked"
    /\ lock = s
    /\ buffer # <<>>
    /\ buffer' = SubSeq(buffer, AtMost(FlushBatchSize, buffer) + 1, Len(buffer))
    /\ lock' = Free
    /\ slots' = [slots EXCEPT ![s].pc = "swapped",
                              ![s].batch = SubSeq(buffer, 1, AtMost(FlushBatchSize, buffer)),
                              ![s].held = buffer, ![s].enqAtSwap = Enqueued]
    /\ UNCHANGED <<sync, headers, client, cur, callers, nextId, acked,
                   requeued, explicit, overlapped, closedOk, outcome>>

\* mutant: the with block goes on to the end of flush(), the POST is
\* awaited inside it
FlushSwapHoldingLock(s) ==
    /\ slots[s].pc = "locked"
    /\ lock = s
    /\ buffer # <<>>
    /\ buffer' = <<>>
    /\ slots' = [slots EXCEPT ![s].pc = "swapped", ![s].batch = buffer,
                              ![s].held = buffer, ![s].enqAtSwap = Enqueued]
    /\ UNCHANGED <<sync, headers, lock, client, cur, callers, nextId, acked,
                   requeued, explicit, overlapped, closedOk, outcome>>

\* the first with block of flush() on a non-empty buffer: copy, clear,
\* release
FlushSwap(s) ==
    /\ slots[s].pc = "locked"
    /\ lock = s
    /\ buffer # <<>>
    /\ buffer' = <<>>
    /\ lock' = Free
    /\ slots' = [slots EXCEPT ![s].pc = "swapped", ![s].batch = buffer,
                              ![s].held = buffer, ![s].enqAtSwap = Enqueued]
    /\ UNCHANGED <<sync, headers, client, cur, callers, nextId, acked,
                   requeued, explicit, overlapped, closedOk, outcome>>

\* after the with block: the payload, _get_client() and the POST, up to
\* its await
FlushPost(s) ==
    /\ slots[s].pc = "swapped"
    /\ cur = s
    /\ cur' = Free
    /\ client' = "open"
    /\ slots' = [slots EXCEPT ![s].pc = "awaiting",
                              ![s].body = Body(slots[s].batch),
                              ![s].posts = @ + 1,
                              ![s].sent = GetClientHeaders(client, headers)]
    /\ headers' = GetClientHeaders(client, headers)
    /\ UNCHANGED <<sync, buffer, lock, callers, nextId, acked, requeued,
                   explicit, overlapped, closedOk, outcome>>

\* mutant: the batch is put back whatever the response (a finally block)
FlushSuccessPutsBack(s, status) ==
    /\ slots[s].pc = "awaiting"
    /\ cur = Free
    /\ lock = Free
    /\ ~RaisesForStatus(status)
    /\ acked' = acked \cup Range(slots[s].batch)
    /\ buffer' = PutBackBuffer(slots[s].batch, buffer)
    /\ Returned(s, client, "ok")
    /\ UNCHANGED <<sync, headers, lock, cur, callers, nextId, requeued,
                   explicit, overlapped>>

\* the response is a 2xx: raise_for_status() passes, flush() returns
FlushSuccess(s, status) ==
    /\ slots[s].pc = "awaiting"
    /\ cur = Free
    /\ ~RaisesForStatus(status)
    /\ acked' = acked \cup Range(slots[s].batch)
    /\ Returned(s, client, "ok")
    /\ UNCHANGED <<sync, headers, buffer, lock, cur, callers, nextId, requeued, explicit,
                   overlapped>>

\* the POST raises (a network error), or raise_for_status() does: the
\* except block runs to its "with self._lock:"
FlushFailure(s) ==
    /\ slots[s].pc = "awaiting"
    /\ cur = Free
    /\ lock = Free
    /\ slots' = [slots EXCEPT ![s].pc = "relocked"]
    /\ lock' = s
    /\ cur' = s
    /\ UNCHANGED <<sync, headers, buffer, client, callers, nextId, acked, requeued, explicit,
                   overlapped, closedOk, outcome>>

\* a non-2xx response
FlushBadStatus(s, status) ==
    /\ RaisesForStatus(status)
    /\ FlushFailure(s)

\* httpx raises from client.post (connect error, timeout, closed client)
FlushNetworkError(s) == FlushFailure(s)

\* mutant: the except block puts the batch back and raises again
FlushPutBackReraises(s) ==
    /\ slots[s].pc = "relocked"
    /\ lock = s
    /\ buffer' = PutBackBuffer(slots[s].batch, buffer)
    /\ requeued' = requeued \cup Range(slots[s].held)
    /\ lock' = Free
    /\ cur' = Free
    /\ slots' = Without(s)
    /\ outcome' = "raised"
    /\ closedOk' = FALSE
    /\ UNCHANGED <<sync, headers, client, callers, nextId, acked, explicit, overlapped>>

\* mutant: the except block sends the batch once more
FlushPutBackRetries(s) ==
    /\ slots[s].pc = "relocked"
    /\ lock = s
    /\ lock' = Free
    /\ cur' = Free
    /\ slots' = [slots EXCEPT ![s].pc = "awaiting", ![s].posts = @ + 1]
    /\ UNCHANGED <<sync, headers, buffer, client, callers, nextId, acked,
                   requeued, explicit, overlapped, closedOk, outcome>>

\* the except block's with block: self._buffer = batch + self._buffer;
\* flush() then returns normally
FlushPutBack(s) ==
    /\ slots[s].pc = "relocked"
    /\ lock = s
    /\ buffer' = PutBackBuffer(slots[s].batch, buffer)
    /\ requeued' = requeued \cup Range(slots[s].held)
    /\ lock' = Free
    /\ FlushReturns(s, "failed")
    /\ UNCHANGED <<sync, headers, client, callers, nextId, acked, explicit,
                   overlapped>>

\* close() after its flush() returned out of a with block: the test of
\* the client and, on an open one, aclose() up to its await
CloseClient(s) ==
    /\ slots[s].pc = "flushed"
    /\ cur = s
    /\ cur' = Free
    /\ Returned(s, client, slots[s].result)
    /\ UNCHANGED <<sync, headers, buffer, lock, callers, nextId, acked,
                   requeued, explicit, overlapped>>

\* "await self._client.aclose()" of close() completes: close() returns
CloseDone(s) ==
    /\ slots[s].pc = "closing"
    /\ cur = Free
    /\ slots' = Without(s)
    /\ outcome' = "returned"
    /\ closedOk' = LeavesNothing(s, slots[s].result)
    /\ UNCHANGED <<sync, headers, buffer, lock, client, cur, callers, nextId,
                   acked, requeued, explicit, overlapped>>

\* ------------------------------------------------------ interruptions

\* model_dump() raises on an event while the payload is built, after the
\* with block: the exception leaves flush(), and close() with it
FlushSerializeError(s) ==
    /\ slots[s].pc = "swapped"
    /\ cur = s
    /\ cur' = Free
    /\ slots' = Without(s)
    /\ outcome' = "raised"
    /\ closedOk' = FALSE
    /\ UNCHANGED <<sync, headers, buffer, lock, client, callers, nextId,
                   acked, requeued, explicit, overlapped>>

\* the task is cancelled while it awaits the response: CancelledError is
\* no Exception, the except block is passed over, and it leaves flush(),
\* and close() with it
FlushCancel(s) ==
    /\ slots[s].pc = "awaiting"
    /\ cur = Free
    /\ slots' = Without(s)
    /\ outcome' = "raised"
    /\ closedOk' = FALSE
    /\ UNCHANGED <<sync, headers, buffer, lock, client, cur, callers, nextId,
                   acked, requeued, explicit, overlapped>>

\* the task is cancelled while close() awaits aclose()
CloseCancel(s) ==
    /\ slots[s].pc = "closing"
    /\ cur = Free
    /\ slots' = Without(s)
    /\ outcome' = "raised"
    /\ closedOk' = FALSE
    /\ UNCHANGED <<sync, headers, buffer, lock, client, cur, callers, nextId,
                   acked, requeued, explicit, overlapped>>

\* ------------------------------------------------------ SyncTransport

\* what a call of verify() or close() starts from
SyncCalled(op) ==
    [sync EXCEPT !.calls = @ + 1, !.op = op, !.built = FALSE, !.posts = 0,
                 !.sent = NoHeaders,
                 !.status = 0, !.body = NoBody, !.outcome = "none",
                 !.result = <<>>]

\* mutant: verify() swallows the error and returns an empty verdict
VerifyRaiseSwallowed(sy) == [sy EXCEPT !.pc = "idle", !.outcome = "returned"]

\* an exception leaves verify(): nothing is returned
VerifyRaise(sy) == [sy EXCEPT !.pc = "idle", !.outcome = "raised"]

\* verify() with an event that model_dump() raises on: the exception
\* leaves verify() before self._client.post
VerifySerializeError ==
    /\ sync.pc = "idle"
    /\ sync.calls < MaxSyncCalls
    /\ sync' = VerifyRaise(SyncCalled("verify"))
    /\ UNCHANGED <<buffer, lock, client, cur, slots, callers, nextId, acked,
                   requeued, explicit, overlapped, closedOk, outcome, headers>>

\* verify() on an open client: the payload is built and self._client.post
\* sends the request
VerifyPost ==
    /\ sync.pc = "idle"
    /\ sync.calls < MaxSyncCalls
    /\ sync.client = "open"
    /\ sync' = [SyncCalled("verify") EXCEPT !.pc = "posting", !.built = TRUE,
                                  !.posts = 1, !.sent = sync.headers]
    /\ UNCHANGED <<buffer, lock, client, cur, slots, callers, nextId, acked,
                   requeued, explicit, overlapped, closedOk, outcome, headers>>

\* verify() on a closed client: the payload is built and self._client.post
\* raises before sending
VerifyClosed ==
    /\ sync.pc = "idle"
    /\ sync.calls < MaxSyncCalls
    /\ sync.client = "closed"
    /\ sync' = VerifyRaise([SyncCalled("verify") EXCEPT !.built = TRUE])
    /\ UNCHANGED <<buffer, lock, client, cur, slots, callers, nextId, acked,
                   requeued, explicit, overlapped, closedOk, outcome, headers>>

\* the request fails on the network: post raises
VerifyNetworkError ==
    /\ sync.pc = "posting"
    /\ sync' = VerifyRaise(sync)
    /\ UNCHANGED <<buffer, lock, client, cur, slots, callers, nextId, acked,
                   requeued, explicit, overlapped, closedOk, outcome, headers>>

\* a response arrives: raise_for_status(), then response.json()
VerifyResponse(status, body) ==
    /\ sync.pc = "posting"
    /\ LET got == [sync EXCEPT !.status = status, !.body = body]
       IN  sync' = IF RaisesForStatus(status) \/ ~body.valid
                   THEN VerifyRaise(got)
                   ELSE [got EXCEPT !.pc = "idle", !.outcome = "returned",
                                    !.result = Json(body.members)]
    /\ UNCHANGED <<buffer, lock, client, cur, slots, callers, nextId, acked,
                   requeued, explicit, overlapped, closedOk, outcome, headers>>

\* mutant: close() drops the client, and a second close() fails on it
SyncCloseOnce ==
    /\ sync.pc = "idle"
    /\ sync.calls < MaxSyncCalls
    /\ sync' = [SyncCalled("close") EXCEPT
                   !.closes = @ + 1,
                   !.client = IF sync.client = "open" THEN "closed" ELSE "none",
                   !.outcome = IF sync.client = "open" THEN "returned"
                               ELSE "raised"]
    /\ UNCHANGED <<buffer, lock, client, cur, slots, callers, nextId, acked,
                   requeued, explicit, overlapped, closedOk, outcome, headers>>

\* SyncTransport.close(): close the client unless it is closed
SyncClose ==
    /\ sync.pc = "idle"
    /\ sync.calls < MaxSyncCalls
    /\ sync' = [SyncCalled("close") EXCEPT !.closes = @ + 1, !.client = "closed",
                                  !.outcome = "returned"]
    /\ UNCHANGED <<buffer, lock, client, cur, slots, callers, nextId, acked,
                   requeued, explicit, overlapped, closedOk, outcome, headers>>

\* ------------------------------------------------------ specification

Next ==
    \/ \E c \in Callers : EnqueueLock(c)
    \/ \E c \in Callers : EnqueueAppend(c)
    \/ \E c \in Callers : EnqueueSchedule(c)
    \/ \E c \in Callers : EnqueueSkip(c)
    \/ \E kind \in {"flush", "close"} : FlushCall(kind)
    \/ \E s \in Slots : FlushRun(s)
    \/ \E s \in Slots : FlushEmpty(s)
    \/ \E s \in Slots : FlushSwap(s)
    \/ \E s \in Slots : FlushPost(s)
    \/ \E s \in Slots, status \in Statuses : FlushSuccess(s, status)
    \/ \E s \in Slots, status \in Statuses : FlushBadStatus(s, status)
    \/ \E s \in Slots : FlushNetworkError(s)
    \/ \E s \in Slots : FlushPutBack(s)
    \/ \E s \in Slots : CloseClient(s)
    \/ \E s \in Slots : CloseDone(s)

Spec == Init /\ [][Next]_vars

\* The threads run, and the event loop runs every task that is ready: its
\* ready queue is first in, first out.  No response is promised.
Fairness ==
    /\ \A c \in Callers : WF_vars(EnqueueAppend(c))
    /\ \A c \in Callers : WF_vars(EnqueueSchedule(c))
    /\ \A c \in Callers : WF_vars(EnqueueSkip(c))
    /\ SF_vars(\E s \in Slots : FlushRun(s))
    /\ WF_vars(\E s \in Slots : FlushEmpty(s))
    /\ WF_vars(\E s \in Slots : FlushSwap(s))
    /\ WF_vars(\E s \in Slots : FlushPost(s))
    /\ WF_vars(\E s \in Slots : FlushPutBack(s))

\* enqueue() from both callers and the flushes it schedules, with flush()
\* and close() never called
NextAuto ==
    \/ \E c \in Callers : EnqueueLockUpTo(c, MaxAutoEvents)
    \/ \E c \in Callers : EnqueueAppend(c)
    \/ \E c \in Callers : EnqueueSchedule(c)
    \/ \E c \in Callers : EnqueueSkip(c)
    \/ \E s \in Slots : FlushRun(s)
    \/ \E s \in Slots : FlushEmpty(s)
    \/ \E s \in Slots : FlushSwap(s)
    \/ \E s \in Slots : FlushPost(s)
    \/ \E s \in Slots, status \in Statuses : FlushSuccess(s, status)
    \/ \E s \in Slots, status \in Statuses : FlushBadStatus(s, status)
    \/ \E s \in Slots : FlushNetworkError(s)
    \/ \E s \in Slots : FlushPutBack(s)

AutoSpec == Init /\ [][NextAuto]_vars /\ Fairness

\* enqueue() called only from coroutines of the running loop, an endpoint
\* that answers every POST with a 2xx, and no call of flush() or close()
NextLoop ==
    \/ EnqueueLockUpTo(LoopCaller, MaxAutoEvents)
    \/ EnqueueAppend(LoopCaller)
    \/ EnqueueSchedule(LoopCaller)
    \/ \E s \in Slots : FlushRun(s)
    \/ \E s \in Slots : FlushEmpty(s)
    \/ \E s \in Slots : FlushSwap(s)
    \/ \E s \in Slots : FlushPost(s)
    \/ \E s \in Slots, status \in Statuses : FlushSuccess(s, status)

LoopSpec == Init /\ [][NextLoop]_vars

\* the SyncTransport alone
NextSync ==
    \/ VerifySerializeError
    \/ VerifyPost
    \/ VerifyClosed
    \/ VerifyNetworkError
    \/ \E status \in SyncStatuses, body \in Bodies : VerifyResponse(status, body)
    \/ SyncClose

SyncSpec == Init /\ [][NextSync]_vars

\* The two transports are separate objects that share no state: a program
\* that uses both behaves, for each, as one that uses it alone.
AsyncUnused ==
    /\ Enqueued = 0
    /\ ~explicit
    /\ \A c \in Callers : callers[c].pc = "idle"
SyncUnused == sync = SyncInit

NextBoth ==
    \/ SyncUnused /\ Next
    \/ AsyncUnused /\ NextSync

BothSpec == Init /\ [][NextBoth]_vars

\* the AsyncTransport with flushes that are interrupted
NextFault ==
    \/ Next
    \/ \E s \in Slots : FlushSerializeError(s)
    \/ \E s \in Slots : FlushCancel(s)
    \/ \E s \in Slots : CloseCancel(s)

FaultSpec == Init /\ [][NextFault]_vars

\* enqueue() and flush() only (no close()), with flush() called again and
\* again and an endpoint that does not fail for ever: when a POST is in
\* flight again and again, one is answered with a 2xx
NextDeliver ==
    \/ \E c \in Callers : EnqueueLock(c)
    \/ \E c \in Callers : EnqueueAppend(c)
    \/ \E c \in Callers : EnqueueSchedule(c)
    \/ \E c \in Callers : EnqueueSkip(c)
    \/ FlushCall("flush")
    \/ \E s \in Slots : FlushRun(s)
    \/ \E s \in Slots : FlushEmpty(s)
    \/ \E s \in Slots : FlushSwap(s)
    \/ \E s \in Slots : FlushPost(s)
    \/ \E s \in Slots, status \in Statuses : FlushSuccess(s, status)
    \/ \E s \in Slots, status \in Statuses : FlushBadStatus(s, status)
    \/ \E s \in Slots : FlushNetworkError(s)
    \/ \E s \in Slots : FlushPutBack(s)

DeliverSpec ==
    /\ Init
    /\ [][NextDeliver]_vars
    /\ Fairness
    /\ SF_vars(FlushCall("flush"))
    /\ SF_vars(\E s \in Slots, status \in Statuses : FlushSuccess(s, status))

TypeOK ==
    /\ buffer \in Seq(1..Enqueued)
    /\ lock \in {Free} \cup Slots \cup Callers
    /\ client \in {"none", "open", "closed"}
    /\ cur \in {Free, LoopCaller} \cup Slots
    /\ nextId \in Nat \ {0}
    /\ acked \subseteq 1..Enqueued
    /\ requeued \subseteq 1..Enqueued
    /\ outcome \in {"none", "returned"}
    /\ \A c \in Callers : callers[c].pc \in {"idle", "locked", "sched"}
    /\ \A s \in Slots :
          /\ slots[s].pc \in {"idle", "scheduled", "locked", "swapped",
                               "awaiting", "relocked", "flushed", "closing"}
          /\ slots[s].kind \in {"none", "auto", "flush", "close"}
          /\ Range(slots[s].batch) \subseteq 1..Enqueued
    /\ \A s \in Slots : Active(s) => \A t \in 1..s : Active(t)
    /\ lock \in Slots => cur = lock /\ slots[lock].pc \in {"locked", "relocked"}
    /\ cur \in Slots => slots[cur].pc \in {"locked", "swapped", "relocked",
                                            "flushed"}
    /\ \A s \in Slots : slots[s].pc \in {"locked", "relocked"} => lock = s
    /\ \A s \in Slots : slots[s].pc \in {"swapped", "flushed"} => cur = s
    /\ lock \in Callers => callers[lock].pc = "locked"
    /\ cur = LoopCaller => callers[LoopCaller].pc # "idle"

\* ------------------------------------------------------------- claims

\* the events of S in the order they were enqueued in
Ascending(S) ==
    CHOOSE q \in [1..Cardinality(S) -> S] :
        \A i, j \in 1..Cardinality(S) : i < j => q[i] < q[j]

\* the events enqueued among the first k and not acknowledged, in enqueue
\* order
PendingUpTo(k) == Ascending({e \in 1..k : e \notin acked})

\* <<a, a+1, ..., b>>
Interval(a, b) == [i \in 1..(IF b >= a THEN b - a + 1 ELSE 0) |-> a + i - 1]

CallersIdle == \A c \in Callers : callers[c].pc = "idle"

\* C1 as claimed: a flush whose POST fails, with no enqueue between its
\* swap and its put-back, leaves the buffer exactly as it found it: same
\* events, same order, same number.
C1_Original ==
    [][\A s \in Slots :
          (FlushPutBack(s) /\ slots[s].enqAtSwap = Enqueued)
              => buffer' = slots[s].held]_vars

\* C1 as amended: ... with no enqueue during the flush and no batch put
\* back into the buffer by another flush() or close() meanwhile (the buffer
\* its swap emptied is still empty when it puts its batch back) ...
C1_FailedFlushRestoresBuffer ==
    [][\A s \in Slots :
          (FlushPutBack(s) /\ slots[s].enqAtSwap = Enqueued /\ buffer = <<>>)
              => buffer' = slots[s].held]_vars

\* three events enqueued, one flush failed: all three are back, in order
C1_Witness ==
    /\ buffer = <<1, 2, 3>>
    /\ requeued = {1, 2, 3}
    /\ acked = {}
    /\ NoneActive
    /\ ~overlapped

\* C2: with flushes that follow one another, the batch a flush sends is
\* every event enqueued and not yet acknowledged, in enqueue order; so
\* after E1, E2, a failed flush and E3, the next flush sends E1, E2, E3.
C2_RetrySendsInOrder ==
    [][\A s \in Slots :
          /\ (FlushSwap(s) /\ ~overlapped)
                => slots'[s].batch = PendingUpTo(Enqueued)
          /\ FlushPost(s) => slots'[s].body = Body(slots[s].batch)]_vars

\* E1 and E2 were put back by a failed flush, and the flush in flight
\* carries E1, E2, E3
C2_Witness ==
    /\ requeued = {1, 2}
    /\ acked = {}
    /\ ~overlapped
    /\ \E s \in Slots : /\ slots[s].pc = "awaiting"
                        /\ slots[s].body = Body(<<1, 2, 3>>)

\* C3: a flush that gets a 2xx (flushes following one another) made one
\* POST, its body is {"events": [e1..en]} with the n >= 1 events enqueued
\* and not acknowledged before its swap, in enqueue order, and when it
\* returns the buffer holds exactly the events enqueued after the swap.
C3_SuccessfulFlushSendsAll ==
    [][\A s \in Slots, status \in Statuses :
          (FlushSuccess(s, status) /\ ~overlapped)
              => /\ slots[s].posts = 1
                 /\ Len(slots[s].body.events) >= 1
                 /\ slots[s].body = Body(PendingUpTo(slots[s].enqAtSwap))
                 /\ buffer' = Interval(slots[s].enqAtSwap + 1, Enqueued)]_vars

\* E1 and E2 were sent and acknowledged; E3, enqueued after the swap, is
\* what the buffer holds
C3_Witness ==
    /\ acked = {1, 2}
    /\ buffer = <<3>>
    /\ requeued = {}
    /\ ~overlapped
    /\ \E s \in Slots : /\ slots[s].pc = "closing"
                        /\ slots[s].result = "ok"
                        /\ slots[s].enqAtSwap = 2

\* C4: while fewer than flush_batch_size events were enqueued and neither
\* flush() nor close() was called, no flush is scheduled or running, no
\* client exists and nothing was sent.
C4_BelowThresholdNoFlush ==
    (~explicit /\ Enqueued < FlushBatchSize)
        => /\ NoneActive
           /\ client = "none"
           /\ acked = {}
           /\ requeued = {}
           /\ \A c \in Callers : callers[c].pc # "sched"

\* flush_batch_size - 1 enqueue calls returned
C4_Witness ==
    /\ ~explicit
    /\ Enqueued = FlushBatchSize - 1
    /\ Len(buffer) = FlushBatchSize - 1
    /\ CallersIdle

\* C5: an enqueue() that leaves the buffer at or above flush_batch_size in
\* a context with a running event loop schedules a flush, and a POST is
\* then made, with flush() and close() never called.
C5_ThresholdSchedulesFlush ==
    /\ [][EnqueueSchedule(LoopCaller)
             => \E s \in Slots : /\ slots'[s].pc = "scheduled"
                                 /\ slots[s].pc = "idle"]_vars
    /\ (callers[LoopCaller].pc = "sched")
           ~> (\E s \in Slots : slots[s].pc = "awaiting")

\* a POST is in flight though flush() and close() were never called
C5_Witness ==
    /\ ~explicit
    /\ \E s \in Slots : slots[s].pc = "awaiting" /\ Len(slots[s].batch) >= FlushBatchSize

\* every scheduled flush has completed and every enqueue() has returned
Settled == NoneActive /\ CallersIdle

\* C6 as claimed: with a running loop and an endpoint that accepts, after
\* N >= flush_batch_size enqueue calls and every scheduled flush completed,
\* the buffer length is N mod flush_batch_size.
C6_Original ==
    (Settled /\ Enqueued >= FlushBatchSize)
        => Len(buffer) = Enqueued % FlushBatchSize

\* C6 as amended: ... the buffer holds fewer than flush_batch_size events
\* (a flush takes the whole buffer, not flush_batch_size events of it).
C6_SettledBelowThreshold ==
    (Settled /\ Enqueued >= FlushBatchSize)
        => Len(buffer) < FlushBatchSize

\* five enqueues: the scheduled flushes took the first four, every one has
\* completed and the fifth event waits in the buffer
C6_Witness ==
    /\ Settled
    /\ Enqueued = 5
    /\ acked = {1, 2, 3, 4}
    /\ buffer = <<5>>

\* C7: an enqueue() that reaches the threshold where no event loop runs
\* returns normally after skipping the auto-flush: it raises nothing,
\* starts no flush, makes no request, takes no lock and leaves the buffer,
\* with its event, as it is.
C7_EnqueueSkipsSilently ==
    [][\A c \in Callers :
          (callers[c].pc = "sched" /\ ~HasRunningLoop(c) /\ callers'[c] # callers[c])
              => /\ callers'[c].pc = "idle"
                 /\ buffer' = buffer
                 /\ slots' = slots
                 /\ client' = client
                 /\ lock' = lock]_vars

\* the buffer is at the threshold, every enqueue() returned and nothing
\* was ever flushed or scheduled
C7_Witness ==
    /\ Len(buffer) >= FlushBatchSize
    /\ Settled
    /\ ~explicit
    /\ acked = {}
    /\ requeued = {}

\* C8: a flush() whose POST failed returns normally once the batch is
\* back in the buffer, and a close() whose flush failed goes on to close
\* the client and returns normally.
C8_FailureNotSurfaced ==
    [][/\ \A s \in Slots :
             FlushPutBack(s)
                 => IF slots[s].kind = "close"
                    THEN slots'[s].pc = "flushed" /\ outcome' = outcome
                    ELSE outcome' = "returned" /\ slots' = Without(s)
       /\ \A s \in Slots :
             (CloseClient(s) /\ slots[s].result = "failed")
                 => IF client = "open"
                    THEN /\ slots'[s].pc = "closing"
                         /\ client' = "closed"
                         /\ outcome' = outcome
                    ELSE outcome' = "returned" /\ slots' = Without(s)
       /\ \A s \in Slots :
             (CloseDone(s) /\ slots[s].result = "failed")
                 => outcome' = "returned"]_vars

\* a close() whose flush failed is closing the client
C8_Witness ==
    /\ requeued # {}
    /\ \E s \in Slots : /\ slots[s].pc = "closing"
                        /\ slots[s].result = "failed"
                        /\ Range(slots[s].batch) \subseteq Range(buffer)

\* C9: a close() called right after a close() whose final flush sent
\* everything (or had nothing to send), with nothing enqueued meanwhile,
\* finds the buffer empty and the client not open, makes no request and
\* returns normally.
C9_SecondCloseIsNoOp ==
    [][\A s \in Slots :
          slots[s].second
              => /\ slots[s].pc \in {"locked", "flushed"}
                 /\ slots[s].pc = "locked" => buffer = <<>>
                 /\ slots[s].posts = 0
                 /\ client # "open"
                 /\ client' = client
                 /\ acked' = acked
                 /\ (slots' # slots)
                        => \/ /\ slots[s].pc = "locked"
                              /\ slots'[s].pc = "flushed"
                              /\ slots'[s].posts = 0
                              /\ buffer' = <<>>
                           \/ /\ slots[s].pc = "flushed"
                              /\ slots' = Without(s)
                              /\ outcome' = "returned"]_vars

\* the second close() is running after a first one that delivered events
C9_Witness ==
    /\ client = "closed"
    /\ acked # {}
    /\ \E s \in Slots : slots[s].second

\* close() of invocation s returns in this step, its flush having ended
\* with the given result
CloseReturnsWith(s, result) ==
    /\ slots[s].kind = "close"
    /\ \/ CloseDone(s) /\ slots[s].result = result
       \/ CloseClient(s) /\ slots[s].result = result /\ client # "open"
       \/ result = "ok" /\ client # "open"
                        /\ \E status \in Statuses : FlushSuccess(s, status)

\* no POST has failed so far
NoFailureYet == requeued = {} /\ \A s \in Slots : slots[s].pc # "relocked"

\* C10: when close() returns against an endpoint that accepts, every event
\* enqueued before close() was called has been delivered (its POST got a
\* 2xx) and the buffer is empty, also when another flush is in flight at
\* the time close() is called.
C10_CloseFlushesAll ==
    [][\A s \in Slots :
          (NoFailureYet /\ slots[s].enqAtCall = Enqueued
             /\ (CloseReturnsWith(s, "ok") \/ CloseReturnsWith(s, "empty")))
              => /\ \A e \in 1..slots[s].enqAtCall : e \in acked'
                 /\ buffer' = <<>>]_vars

\* C11: a flush() that finds the buffer empty returns at once: it has made
\* no request, creates no client and leaves the buffer empty.
C11_EmptyFlushIsNoOp ==
    [][\A s \in Slots :
          (slots[s].pc = "locked" /\ lock = s /\ buffer = <<>> /\ lock' # lock)
              => /\ slots[s].posts = 0
                 /\ client' # "open" \/ client = "open"
                 /\ buffer' = <<>>
                 /\ acked' = acked
                 /\ lock' = Free
                 /\ \/ slots' = Without(s) /\ outcome' = "returned"
                    \/ /\ slots[s].kind = "close"
                       /\ slots'[s].pc = "flushed"
                       /\ slots'[s].result = "empty"
                       /\ slots'[s].posts = 0]_vars

\* flush() has returned on a transport that never held an event and never
\* made a client
C11_Witness ==
    /\ explicit
    /\ outcome = "returned"
    /\ Enqueued = 0
    /\ buffer = <<>>
    /\ client = "none"
    /\ NoneActive

\* C12: a verify() whose request failed on the network or was answered
\* with a non-2xx status has raised: it returned nothing.
C12_VerifySurfacesFailure ==
    (/\ sync.pc = "idle"
     /\ sync.posts = 1
     /\ sync.status = 0 \/ RaisesForStatus(sync.status))
        => /\ sync.outcome = "raised"
           /\ sync.result = <<>>

\* verify() has raised on a 500
C12_Witness ==
    /\ sync.pc = "idle"
    /\ sync.posts = 1
    /\ sync.status = 500
    /\ sync.outcome = "raised"

\* C13: a verify() that returned gives the mapping of the response body:
\* the names of the body's members and no other, each with the value the
\* body gives it.
C13_VerifyReturnsVerdictVerbatim ==
    (sync.outcome = "returned" /\ sync.posts = 1)
        => /\ ~RaisesForStatus(sync.status)
           /\ sync.body.valid
           /\ DOMAIN sync.result = Keys(sync.body.members)
           /\ \A i \in 1..Len(sync.body.members) :
                 sync.result[sync.body.members[i][1]] = sync.body.members[i][2]

\* verify() returned the verdict of the test, and one without an action
C13_Witness ==
    /\ sync.outcome = "returned"
    /\ sync.posts = 1
    /\ sync.status = 200
    /\ Len(sync.body.members) = 3
    /\ sync.result["confidence"] = "0.92"
    /\ sync.result["action"] = "pass"

\* C14: every request in flight or answered, the batch POST of a flush and
\* the POST of verify(), carries the API key in X-AgentGuard-Key, also when
\* the client that sent it was made after a close().
C14_RequestsCarryApiKey ==
    /\ \A s \in Slots :
          slots[s].posts > 0
              => /\ "X-AgentGuard-Key" \in DOMAIN slots[s].sent
                 /\ slots[s].sent["X-AgentGuard-Key"] = ApiKey
    /\ sync.posts > 0
          => /\ "X-AgentGuard-Key" \in DOMAIN sync.sent
             /\ sync.sent["X-AgentGuard-Key"] = ApiKey

\* a close() has closed the client and has yet to return, and the POST of
\* a flush that took the buffer since went through a new client, with the
\* key
C14_Witness ==
    /\ client = "open"
    /\ \E s, t \in Slots :
          /\ slots[s].pc = "closing"
          /\ slots[t].pc = "awaiting"
          /\ slots[t].sent = NewHeaders
          /\ \A u \in Slots \ {s, t} : ~Active(u)
    /\ sync.posts = 0

\* C15: a flush that is suspended, awaiting its POST or the closing of the
\* client, does not hold the buffer lock; the lock is held only inside the
\* with blocks, which never await; and while a POST is in flight and the
\* lock is free, an enqueue() from a thread can take it.
C15_LockFreeWhileAwaiting ==
    /\ \A s \in Slots :
          slots[s].pc \in {"scheduled", "swapped", "awaiting", "flushed",
                           "closing"} => lock # s
    /\ lock \in Slots => slots[lock].pc \in {"locked", "relocked"} /\ cur = lock
    /\ (/\ \E s \in Slots : slots[s].pc = "awaiting"
        /\ lock = Free
        /\ callers[ThreadCaller].pc = "idle"
        /\ nextId <= MaxEvents)
          => ENABLED EnqueueLock(ThreadCaller)

\* an enqueue() ran from start to end while a POST was in flight
C15_Witness ==
    /\ lock = Free
    /\ CallersIdle
    /\ \E s \in Slots : /\ slots[s].pc = "awaiting"
                        /\ slots[s].enqAtSwap < Enqueued
                        /\ Len(buffer) = Enqueued - slots[s].enqAtSwap

\* C16: the batch of a flush is the buffer at its swap, whole: the swap
\* leaves the buffer empty, the batch never holds an event enqueued after
\* the swap, an event enqueued later goes to the buffer and into no batch,
\* and a failed flush puts its whole batch back, in one piece.
C16_BatchIsBufferAtSwap ==
    [][/\ \A s \in Slots :
             FlushSwap(s) => /\ slots'[s].batch = buffer
                             /\ buffer' = <<>>
       /\ \A s \in Slots :
             FlushPost(s) => slots'[s].body = Body(slots[s].held)
       /\ \A s \in Slots :
             slots[s].pc \in {"swapped", "awaiting", "relocked"}
                 => /\ slots[s].batch = slots[s].held
                    /\ \A e \in Range(slots[s].batch) : e <= slots[s].enqAtSwap
       /\ \A s \in Slots :
             FlushPutBack(s)
                 => SubSeq(buffer', 1, Len(slots[s].batch)) = slots[s].held
       /\ \A c \in Callers :
             EnqueueAppend(c)
                 => /\ buffer' = Append(buffer, nextId)
                    /\ \A s \in Slots : slots'[s].batch = slots[s].batch]_vars

\* a flush took <<1, 2>> and failed while a third event was enqueued: the
\* two are back and the third is behind them
C16_Witness ==
    /\ buffer = <<1, 2, 3>>
    /\ requeued = {1, 2}
    /\ acked = {}
    /\ NoneActive

\* C17: SyncTransport.close() returns normally however often it is called,
\* and once it was called the client is closed and stays closed, whatever
\* is called afterwards.
C17_SyncCloseIdempotent ==
    [][/\ sync.closes >= 1 => sync.client = "closed" /\ sync'.client = "closed"
       /\ sync'.closes > sync.closes
             => /\ sync'.outcome = "returned"
                /\ sync'.client = "closed"
                /\ sync'.posts = 0]_vars

\* close() has returned for the third time on a transport that was also
\* asked to verify
C17_Witness ==
    /\ sync.closes = 3
    /\ sync.calls = 4
    /\ sync.outcome = "returned"
    /\ sync.client = "closed"

\* C18: in every reachable state the buffer lists its events in the order
\* they were enqueued in, whatever the interleaving of enqueues and
\* flushes, several of them in flight and failing in any order.
C18_BufferInEnqueueOrder ==
    \A i, j \in 1..Len(buffer) : i < j => buffer[i] < buffer[j]

\* C19: every step of enqueue(), flush() and close() that reads or writes
\* the buffer, its contents or its length, is taken by the holder of the
\* buffer lock.
C19_BufferAccessUnderLock ==
    [][/\ \A c \in Callers : (EnqueueAppend(c) \/ EnqueueSkip(c)) => lock = c
       /\ \A s \in Slots :
             (FlushEmpty(s) \/ FlushSwap(s) \/ FlushPutBack(s)) => lock = s]_vars

\* C20 as claimed: no call retries: a flush() makes at most one POST, none
\* when it finds the buffer empty, and ends once its failed batch is back
\* in the buffer; and each verify() makes exactly one POST, however it ends.
C20_Original ==
    [][/\ \A s \in Slots : slots[s].posts <= 1 /\ slots'[s].posts <= 1
       /\ \A s \in Slots : FlushEmpty(s) => slots[s].posts = 0
       /\ \A s \in Slots :
             FlushPutBack(s)
                 => /\ slots[s].posts = 1
                    /\ \/ slots' = Without(s)
                       \/ slots'[s].pc = "flushed" /\ slots'[s].posts = 1
       /\ (sync'.op = "verify" /\ sync'.pc = "idle") => sync'.posts = 1]_vars

\* C20 as amended: ... and each verify() makes at most one POST: exactly
\* one, however the request ends, when the transport was not closed before
\* the call and the payload could be built, and none otherwise (the closed
\* client, or the building of the payload, raises before anything is
\* sent).
C20_NoInternalRetry ==
    [][/\ \A s \in Slots : slots[s].posts <= 1 /\ slots'[s].posts <= 1
       /\ \A s \in Slots : FlushEmpty(s) => slots[s].posts = 0
       /\ \A s \in Slots :
             FlushPutBack(s)
                 => /\ slots[s].posts = 1
                    /\ \/ slots' = Without(s)
                       \/ slots'[s].pc = "flushed" /\ slots'[s].posts = 1
       /\ (sync'.op = "verify" /\ sync'.pc = "idle")
             => sync'.posts = IF sync'.closes = 0 /\ sync'.built THEN 1
                                                                     ELSE 0
       /\ sync'.posts <= 1]_vars

\* a flush has failed and ended after its one POST, its batch waiting in
\* the buffer for the next call
C20_Witness ==
    /\ requeued = {1, 2}
    /\ buffer = <<1, 2>>
    /\ acked = {}
    /\ NoneActive
    /\ outcome = "returned"
    /\ Enqueued = 2

\* close() of invocation s ends in this step, by a return or an exception
CloseEnds(s) ==
    \/ \E result \in {"empty", "ok", "failed"} : CloseReturnsWith(s, result)
    \/ /\ slots[s].kind = "close"
       /\ FlushSerializeError(s) \/ FlushCancel(s) \/ CloseCancel(s)

\* C21: whenever a close() ends, by a return or an exception, its flush
\* having succeeded, failed or been interrupted, the client is not open
\* (stated for a close() that no other flush() or close() overlapped).
C21_CloseReleasesClient ==
    [][\A s \in Slots :
          (CloseEnds(s) /\ slots[s].alone) => client' # "open"]_vars

\* a flush that has swapped its batch out and neither got its 2xx nor put
\* the batch back
InFlight(s) == slots[s].pc \in {"swapped", "awaiting", "relocked"}

\* the number of places an event is in: each position of the buffer, each
\* position of the batch of each flush in flight, and the acknowledged set
Places(e) ==
    Cardinality({i \in 1..Len(buffer) : buffer[i] = e})
    + Cardinality({<<s, i>> \in Slots \X (1..Enqueued) :
                      /\ InFlight(s)
                      /\ i <= Len(slots[s].batch)
                      /\ slots[s].batch[i] = e})
    + (IF e \in acked THEN 1 ELSE 0)

\* C22: with flushes that end only by a response or a network error, every
\* event enqueued is in exactly one place: once in the buffer, once in the
\* batch of one flush in flight, or acknowledged.
C22_EventConservation ==
    \A e \in 1..Enqueued : Places(e) = 1

\* one event acknowledged, one in the batch of a flush in flight, one in
\* the buffer
C22_Witness ==
    /\ acked = {1}
    /\ buffer = <<3>>
    /\ \E s \in Slots : InFlight(s) /\ slots[s].batch = <<2>>

\* C23: a flush that has swapped its batch out and ends without a 2xx,
\* because the POST failed, the payload could not be built or the task was
\* cancelled, has put the whole batch back: every event of the batch is in
\* the buffer when the flush ends.
C23_StoppedFlushPutsBatchBack ==
    [][\A s \in Slots :
          (FlushPutBack(s) \/ FlushSerializeError(s) \/ FlushCancel(s))
              => Range(slots[s].held) \subseteq Range(buffer')]_vars

\* C24: with flush() called again and again and an endpoint that ends up
\* accepting, every event enqueued is acknowledged in the end and the
\* buffer becomes and stays empty; and until then nothing is capped or
\* dropped: whenever no flush is in flight the buffer holds as many events
\* as were enqueued and are not acknowledged.
C24_EventualDelivery ==
    /\ []((\A s \in Slots : ~InFlight(s))
             => Len(buffer) = Enqueued - Cardinality(acked))
    /\ <>[](buffer = <<>> /\ acked = 1..Enqueued)

\* three events delivered after failed attempts, nothing left
C24_Witness ==
    /\ Enqueued = 3
    /\ acked = {1, 2, 3}
    /\ requeued = {1, 2, 3}
    /\ buffer = <<>>
    /\ NoneActive
    /\ ~overlapped

=============================================================================
